---------------------------- MODULE Spec2Model ----------------------------
(***************************************************************************)
(* A model of the Soft Actor-Critic agent of src/agent.py and the Actor of *)
(* src/model.py.                                                           *)
(*                                                                         *)
(* Three specifications share the module:                                  *)
(*   Spec        Agent.train, one step of the loop per action;             *)
(*   SpecUpdate  Agent.update_parameters called directly on a buffer the   *)
(*               caller fills, one statement group per action;             *)
(*   SpecActor   Actor.__init__, Actor.sample and Agent.select_action.     *)
(*                                                                         *)
(* Numbers.  Tensors are modelled one component at a time, as integers.    *)
(* tanh values are integers in units of 1/TanhDen; action_scale and        *)
(* action_bias are kept in halves (the source divides by 2), so an action  *)
(* is an integer in units of 1/(2*TanhDen).  Rewards, Q-values,            *)
(* log-probabilities, gamma, alpha and tau are small integers.             *)
(***************************************************************************)
EXTENDS Integers, Sequences, FiniteSets, TLC

(***************************************************************************)
(* Bounds of the model.                                                    *)
(***************************************************************************)
MaxEpisodes == 2
MaxEpisodeSteps == 2
MaxBatch == 2
MaxUpdatesPerStep == 1
MemSize == 1
MaxPre == 2
MaxCalls == 2
MaxCallBatch == 2
\* the resolution of tanh values
TanhDen == 4

(***************************************************************************)
(* Program constants.                                                      *)
(***************************************************************************)
CheckpointInterval == 10

None == "None"

EnvStates == {0, 1}
Rewards == {0, 1}
ActionBounds == -1 .. 1
ActionSpaces ==
    {sp \in [given : {TRUE}, low : ActionBounds, high : ActionBounds] : sp.low <= sp.high}
\* action_space=None of Actor.__init__
NoSpace == [given |-> FALSE, low |-> 0, high |-> 0]
PreSquash == (0 - MaxPre) .. MaxPre
\* the draws of the rollout
TrainPre == {-1, 1}
LogProbs == {-1, 1}
\* the two target-critic values of a transition
QPairs == {[qf1 |-> -1, qf2 |-> 2], [qf1 |-> 2, qf2 |-> -1]}
Params == {0, 1}
Gammas == {1, 2}
Alphas == {0, 1}
Taus == {0, 1}
TargetUpdateIntervals == {2}
\* the update counters a caller passes
UpdateCounters == {0, 1}
\* the sign of a gradient component
Gradients == {-1, 1}

VARIABLES
    \* Actor (src/model.py)
    action_space, action_scale, action_bias, actor, sampled, selected,
    \* Agent.train locals (src/agent.py 82-123)
    pc, cfg, episode, episode_steps, total_numsteps, updates, done, state,
    action, step_out, exc,
    \* the replay buffer and the checkpoint files
    memory, checkpoint_files,
    \* history of Agent.train: calls of save_checkpoint, per-iteration notes
    save_calls, iter,
    \* Agent.update_parameters (src/agent.py 37-80)
    upc, hp, critic, critic_target, critic_grad, call, ncalls, batch,
    target_in, next_q_value, target_at_call

actorVars == <<action_space, action_scale, action_bias, actor, sampled, selected>>
trainVars == <<pc, cfg, episode, episode_steps, total_numsteps, updates, done,
               state, action, step_out, save_calls, iter>>
storeVars == <<memory, checkpoint_files>>
updVars == <<upc, hp, critic, critic_target, critic_grad, call, ncalls, batch,
             target_in, next_q_value, target_at_call>>
vars == <<actorVars, trainVars, storeVars, updVars, exc>>

(***************************************************************************)
(* Actor.                                                                  *)
(***************************************************************************)

\* torch.tanh on a coarse grid: odd, monotone, within [-1, 1], saturating at
\* exactly 1 for large arguments as float32 does.
Tanh(x) ==
    IF x >= 2 THEN TanhDen
    ELSE IF x = 1 THEN TanhDen - 1
    ELSE IF x = 0 THEN 0
    ELSE IF x = -1 THEN 0 - (TanhDen - 1)
    ELSE 0 - TanhDen

\* Actor.__init__, lines 32-41: the rescaling pair, in halves.
ActionScale(sp) == IF ~sp.given THEN 2 ELSE sp.high - sp.low
ActionBias(sp) == IF ~sp.given THEN 0 ELSE sp.high - sp.low

\* Lines 57 and 61: y * action_scale + action_bias, in units of 1/(2*TanhDen).
Rescale(y, scale, bias) == y * scale + TanhDen * bias

\* Actor.sample: x_t is the reparameterised draw, mean the mean head's output;
\* the density arithmetic of lines 58-60 is abstracted to a drawn log_prob.
ActorSample(x_t, mean, lp) ==
    [action |-> Rescale(Tanh(x_t), action_scale, action_bias),
     log_prob |-> lp,
     mean |-> Rescale(Tanh(mean), action_scale, action_bias)]

\* Agent.select_action, lines 29-35.
SelectResult(s, evaluate) == IF evaluate THEN s.mean ELSE s.action

(***************************************************************************)
(* Replay buffer (module buffer, not part of the sources): a fixed-size    *)
(* circular store.                                                         *)
(***************************************************************************)
EmptyMemory == [ctr |-> 0, data |-> << >>]

MemLen(m) == Len(m.data)

can_sample(m, batch_size) == MemLen(m) >= batch_size

store_transition(m, t) ==
    [ctr |-> m.ctr + 1,
     data |-> IF Len(m.data) < MemSize
              THEN Append(m.data, t)
              ELSE [m.data EXCEPT ![(m.ctr % MemSize) + 1] = t]]

(***************************************************************************)
(* Agent.train.                                                            *)
(***************************************************************************)
NoStep == [next_state |-> 0, reward |-> 0, done |-> FALSE]
\* Notes on the current iteration of the step loop: the state the action was
\* selected from, whether can_sample held at line 98, and updates at line 97.
NoIter == [from |-> 0, guard |-> FALSE, updates0 |-> 0]

Configs ==
    [episodes : {MaxEpisodes},
     batch_size : 1 .. MaxBatch,
     updates_per_step : 0 .. MaxUpdatesPerStep,
     max_episode_steps : 0 .. MaxEpisodeSteps]

\* Line 96.
LoopCond == ~done /\ episode_steps < cfg.max_episode_steps

\* Line 98 without the test.
UpdateGuardAlways == TRUE

\* Line 98.
UpdateGuard == can_sample(memory, cfg.batch_size)

\* Line 113 without the step-cap case.
MaskNoCap(steps, d) == IF d THEN 0 ELSE 1

\* Line 113.
Mask(steps, d) == IF steps = cfg.max_episode_steps THEN 1 ELSE IF d THEN 0 ELSE 1

\* Line 122.
CheckpointDue(e) == e % CheckpointInterval = 0

\* Agent.save_checkpoint, lines 125-126: pass.
AgentSaveCheckpoint(files) == files

\* Lines 87-88.
TrainBegin ==
    /\ pc = "idle"
    /\ pc' = "episode"
    /\ total_numsteps' = 0
    /\ updates' = 0
    /\ episode' = 0
    /\ UNCHANGED <<cfg, episode_steps, done, state, action, step_out, exc,
                   save_calls, iter>>
    /\ UNCHANGED <<actorVars, storeVars, updVars>>

\* Lines 90-94: the next episode of range(episodes), env.reset().
EpisodeBegin ==
    /\ pc = "episode"
    /\ episode < cfg.episodes
    /\ \E s0 \in EnvStates : state' = s0
    /\ episode_steps' = 0
    /\ done' = FALSE
    /\ pc' = "while"
    /\ iter' = NoIter
    /\ UNCHANGED <<cfg, episode, total_numsteps, updates, action, step_out, exc,
                   save_calls>>
    /\ UNCHANGED <<actorVars, storeVars, updVars>>

\* Line 90, range(episodes) exhausted: train returns.
TrainReturn ==
    /\ pc = "episode"
    /\ episode >= cfg.episodes
    /\ pc' = "returned"
    /\ UNCHANGED <<cfg, episode, episode_steps, total_numsteps, updates, done,
                   state, action, step_out, exc, save_calls, iter>>
    /\ UNCHANGED <<actorVars, storeVars, updVars>>

\* Lines 96-97: the loop test holds, select_action(state).
SelectAction ==
    /\ pc = "while"
    /\ LoopCond
    /\ \E x_t \in TrainPre, mean \in TrainPre, lp \in LogProbs :
         action' = SelectResult(ActorSample(x_t, mean, lp), FALSE)
    /\ iter' = [from |-> state, guard |-> FALSE, updates0 |-> updates]
    /\ pc' = "guard"
    /\ UNCHANGED actorVars
    /\ UNCHANGED <<cfg, episode, episode_steps, total_numsteps, updates, done,
                   state, step_out, exc, save_calls>>
    /\ UNCHANGED <<storeVars, updVars>>

\* Line 96, the loop test fails: on to line 119.
LoopExit ==
    /\ pc = "while"
    /\ ~LoopCond
    /\ pc' = "episode_end"
    /\ UNCHANGED <<cfg, episode, episode_steps, total_numsteps, updates, done,
                   state, action, step_out, exc, save_calls, iter>>
    /\ UNCHANGED <<actorVars, storeVars, updVars>>

\* Lines 98-99: the update branch is entered when can_sample holds and
\* range(updates_per_step) is not empty.
EnterUpdates ==
    /\ pc = "guard"
    /\ UpdateGuard
    /\ cfg.updates_per_step > 0
    /\ pc' = "update"
    /\ iter' = [iter EXCEPT !.guard = TRUE]
    /\ UNCHANGED <<cfg, episode, episode_steps, total_numsteps, updates, done,
                   state, action, step_out, exc, save_calls>>
    /\ UNCHANGED <<actorVars, storeVars, updVars>>

\* Lines 98-99: no update in this iteration.
SkipUpdates ==
    /\ pc = "guard"
    /\ ~(UpdateGuard /\ cfg.updates_per_step > 0)
    /\ pc' = "step"
    /\ iter' = [iter EXCEPT !.guard = UpdateGuard]
    /\ UNCHANGED <<cfg, episode, episode_steps, total_numsteps, updates, done,
                   state, action, step_out, exc, save_calls>>
    /\ UNCHANGED <<actorVars, storeVars, updVars>>

\* Line 100: the arguments of update_parameters are evaluated; batch_sizem is
\* bound nowhere (not in train, not in the module, not in model's names), so
\* Python raises NameError before the call and train ends with it.  Lines
\* 101-105 are never reached: updates stays 0.
UpdateCall ==
    /\ pc = "update"
    /\ pc' = "raised"
    /\ exc' = "NameError"
    /\ UNCHANGED <<cfg, episode, episode_steps, total_numsteps, updates, done,
                   state, action, step_out, save_calls, iter>>
    /\ UNCHANGED <<actorVars, storeVars, updVars>>

\* Lines 107-111: env.step(action) and the counters.
EnvStep ==
    /\ pc = "step"
    /\ \E ns \in EnvStates, r \in Rewards, d \in BOOLEAN :
         /\ step_out' = [next_state |-> ns, reward |-> r, done |-> d]
         /\ done' = d
    /\ episode_steps' = episode_steps + 1
    /\ total_numsteps' = total_numsteps + 1
    /\ UNCHANGED iter
    /\ pc' = "store"
    /\ UNCHANGED <<cfg, episode, updates, state, action, exc, save_calls>>
    /\ UNCHANGED <<actorVars, storeVars, updVars>>

\* Lines 113-117 with the store left out for a terminal step.
StoreTransitionUnlessDone ==
    /\ pc = "store"
    /\ memory' = IF done THEN memory
                 ELSE store_transition(memory,
                        [state |-> state, action |-> action,
                         reward |-> step_out.reward,
                         next_state |-> step_out.next_state,
                         mask |-> Mask(episode_steps, done)])
    /\ state' = step_out.next_state
    /\ pc' = "while"
    /\ UNCHANGED <<cfg, episode, episode_steps, total_numsteps, updates, done,
                   action, step_out, exc, save_calls, iter>>
    /\ UNCHANGED <<checkpoint_files>>
    /\ UNCHANGED <<actorVars, updVars>>

\* Lines 113-117: the mask, the store, and the state advanced.
StoreTransition ==
    /\ pc = "store"
    /\ memory' = store_transition(memory,
                    [state |-> state, action |-> action,
                     reward |-> step_out.reward,
                     next_state |-> step_out.next_state,
                     mask |-> Mask(episode_steps, done)])
    /\ state' = step_out.next_state
    /\ pc' = "while"
    /\ UNCHANGED <<cfg, episode, episode_steps, total_numsteps, updates, done,
                   action, step_out, exc, save_calls, iter>>
    /\ UNCHANGED <<checkpoint_files>>
    /\ UNCHANGED <<actorVars, updVars>>

\* Lines 119-123 with episode % 10 == 0: save_checkpoint() is called.
EpisodeEndSave ==
    /\ pc = "episode_end"
    /\ CheckpointDue(episode)
    /\ checkpoint_files' = AgentSaveCheckpoint(checkpoint_files)
    /\ save_calls' = save_calls + 1
    /\ episode' = episode + 1
    /\ pc' = "episode"
    /\ UNCHANGED <<cfg, episode_steps, total_numsteps, updates, done, state,
                   action, step_out, exc, iter>>
    /\ UNCHANGED <<memory>>
    /\ UNCHANGED <<actorVars, updVars>>

\* Lines 119-122 otherwise.
EpisodeEndNoSave ==
    /\ pc = "episode_end"
    /\ ~CheckpointDue(episode)
    /\ episode' = episode + 1
    /\ pc' = "episode"
    /\ UNCHANGED <<cfg, episode_steps, total_numsteps, updates, done, state,
                   action, step_out, exc, save_calls, iter>>
    /\ UNCHANGED <<actorVars, storeVars, updVars>>

Absent == [saved |-> FALSE, params |-> 0]
NoFiles == [n \in {"actor", "critic", "critic_target"} |-> Absent]
NoCall == [batch_size |-> 0, updates |-> 0]
NoHp == [gamma |-> 0, tau |-> 0, alpha |-> 0, target_update_interval |-> 1]

\* Actor.__init__: the rescaling pair of the action space; actor stands for
\* the network's parameters.
ActorInit(sp) ==
    /\ action_space = sp
    /\ action_scale = ActionScale(sp)
    /\ action_bias = ActionBias(sp)
    /\ sampled = << >>
    /\ selected = << >>

UpdIdle ==
    /\ upc = "idle"
    /\ call = NoCall
    /\ ncalls = 0
    /\ batch = << >>
    /\ target_in = << >>
    /\ next_q_value = << >>
    /\ critic_grad = << >>

\* The Agent constructed (lines 13-27) on the action space [-1, 1], an empty
\* buffer, train not yet called with one of Configs.
Init ==
    /\ \E sp \in {[given |-> TRUE, low |-> -1, high |-> 1]} : ActorInit(sp)
    /\ actor = 0
    /\ cfg \in Configs
    /\ pc = "idle"
    /\ episode = 0 /\ episode_steps = 0 /\ total_numsteps = 0 /\ updates = 0
    /\ done = FALSE /\ state = 0 /\ action = 0 /\ step_out = NoStep
    /\ exc = None /\ save_calls = 0 /\ iter = NoIter
    /\ memory = EmptyMemory
    /\ checkpoint_files = NoFiles
    /\ UpdIdle
    /\ hp = NoHp
    /\ critic = 0 /\ critic_target = 1
    /\ target_at_call = critic_target

Next ==
    \/ TrainBegin
    \/ EpisodeBegin
    \/ TrainReturn
    \/ SelectAction
    \/ LoopExit
    \/ EnterUpdates
    \/ SkipUpdates
    \/ UpdateCall
    \/ EnvStep
    \/ StoreTransition
    \/ EpisodeEndSave
    \/ EpisodeEndNoSave

Spec == Init /\ [][Next]_vars

(***************************************************************************)
(* Actor and Agent.select_action called directly.                          *)
(***************************************************************************)

\* Actor.sample(state), lines 51-62.
Sample ==
    /\ \E x_t \in PreSquash, mean \in PreSquash, lp \in LogProbs :
         sampled' = <<ActorSample(x_t, mean, lp)>>
    /\ UNCHANGED <<action_space, action_scale, action_bias, actor, selected>>
    /\ UNCHANGED <<trainVars, storeVars, updVars, exc>>

\* Agent.select_action(state, evaluate), lines 29-35.
SelectActionCall ==
    /\ \E x_t \in PreSquash, mean \in PreSquash, lp \in LogProbs, evaluate \in BOOLEAN :
         selected' = <<SelectResult(ActorSample(x_t, mean, lp), evaluate)>>
    /\ UNCHANGED <<action_space, action_scale, action_bias, actor, sampled>>
    /\ UNCHANGED <<trainVars, storeVars, updVars, exc>>

\* Actor.save_checkpoint, lines 69-70.
ActorSaveCheckpoint ==
    /\ checkpoint_files' =
         [checkpoint_files EXCEPT !["actor"] = [saved |-> TRUE, params |-> actor]]
    /\ UNCHANGED memory
    /\ UNCHANGED <<actorVars, trainVars, updVars, exc>>

\* Actor.load_checkpoint, lines 72-73, on a file that exists.
ActorLoadCheckpoint ==
    /\ checkpoint_files["actor"].saved
    /\ actor' = checkpoint_files["actor"].params
    /\ UNCHANGED <<action_space, action_scale, action_bias, sampled, selected>>
    /\ UNCHANGED <<trainVars, storeVars, updVars, exc>>

\* An Actor constructed on any action space, or on none; a checkpoint file of
\* an earlier run may exist.
InitActor ==
    /\ \E sp \in ActionSpaces \cup {NoSpace} : ActorInit(sp)
    /\ actor \in Params
    /\ cfg \in {[episodes |-> 0, batch_size |-> 1, updates_per_step |-> 0,
                 max_episode_steps |-> 0]}
    /\ pc = "idle"
    /\ episode = 0 /\ episode_steps = 0 /\ total_numsteps = 0 /\ updates = 0
    /\ done = FALSE /\ state = 0 /\ action = 0 /\ step_out = NoStep
    /\ exc = None /\ save_calls = 0 /\ iter = NoIter
    /\ memory = EmptyMemory
    /\ checkpoint_files \in
         {NoFiles} \cup {[NoFiles EXCEPT !["actor"] = [saved |-> TRUE, params |-> q]] :
                           q \in Params}
    /\ UpdIdle
    /\ hp = NoHp
    /\ critic = 0 /\ critic_target = 1
    /\ target_at_call = critic_target

NextActor ==
    \/ Sample
    \/ SelectActionCall
    \/ ActorSaveCheckpoint
    \/ ActorLoadCheckpoint

SpecActor == InitActor /\ [][NextActor]_vars

\* An action lies within the bounds of the action space, componentwise.
InBounds(a, sp) == 2 * TanhDen * sp.low <= a /\ a <= 2 * TanhDen * sp.high

\* C5 as claimed: on an action space with low <= high, the action and the
\* mean action returned by Actor.sample, and the action select_action
\* returns, lie within [low, high].
C5_ActionInBounds ==
    action_space.given =>
        /\ \A i \in 1 .. Len(sampled) :
              InBounds(sampled[i].action, action_space)
                /\ InBounds(sampled[i].mean, action_space)
        /\ \A i \in 1 .. Len(selected) : InBounds(selected[i], action_space)

(***************************************************************************)
(* Agent.update_parameters called directly by a caller that fills the      *)
(* buffer.  The networks' outputs are drawn: they depend on weights the    *)
(* model does not follow.  critic and critic_target stand for one          *)
(* parameter each; critic_grad lists the backward passes accumulated in    *)
(* the critic parameter's .grad since it was last cleared.                 *)
(***************************************************************************)
Min(a, b) == IF a <= b THEN a ELSE b

Transitions ==
    [state : {0}, action : {0}, reward : Rewards, next_state : {1},
     mask : {0, 1}]

\* sample_buffer(batch_size): batch_size transitions drawn uniformly from the
\* stored ones.
sample_buffer(m, n) ==
    {[i \in 1 .. n |-> m.data[ix[i]]] : ix \in [1 .. n -> 1 .. MemLen(m)]}

\* Line 49.
SoftValue(q1, q2, alpha, log_pi) == Min(q1, q2) - alpha * log_pi

\* Line 50 with the mask left out.
NextQValueNoMask(reward, mask, gamma, soft) == reward + gamma * soft

\* Line 50.
NextQValue(reward, mask, gamma, soft) == reward + mask * gamma * soft

\* Line 58 left out: the gradients of earlier backward passes stay.
ZeroGradKeep(grad) == grad

\* Line 58: critic_optim.zero_grad().
ZeroGrad(grad) == << >>

\* Line 59: backward() adds a loss's gradient to the parameter's .grad.
Backward(grad, contribution) == Append(grad, contribution)

RECURSIVE GradSum(_)
GradSum(grad) == IF grad = << >> THEN 0 ELSE Head(grad).g + GradSum(Tail(grad))

\* Line 60: the optimizer moves the parameter against its accumulated .grad.
OptimStep(param, grad) == param - GradSum(grad)

\* The caller stores a transition.
CallerStore ==
    /\ upc \in {"idle", "raised"}
    /\ memory.ctr <= MemSize
    /\ \E t \in Transitions : memory' = store_transition(memory, t)
    /\ UNCHANGED checkpoint_files
    /\ UNCHANGED <<actorVars, trainVars, updVars, exc>>

\* update_parameters(memory, batch_size, updates) is called.
CallUpdate ==
    /\ upc \in {"idle", "raised"}
    /\ ncalls < MaxCalls
    /\ \E n \in 1 .. MaxCallBatch, u \in UpdateCounters :
         call' = [batch_size |-> n, updates |-> u]
    /\ ncalls' = ncalls + 1
    /\ target_at_call' = critic_target
    /\ exc' = None
    /\ upc' = "sample"
    /\ UNCHANGED <<hp, critic, critic_target, critic_grad, batch, target_in,
                   next_q_value>>
    /\ UNCHANGED <<actorVars, trainVars, storeVars>>

\* Lines 38-43: the batch.
SampleBatch ==
    /\ upc = "sample"
    /\ can_sample(memory, call.batch_size)
    /\ batch' \in sample_buffer(memory, call.batch_size)
    /\ upc' = "target"
    /\ UNCHANGED <<hp, critic, critic_target, critic_grad, call, ncalls,
                   target_in, next_q_value, target_at_call>>
    /\ UNCHANGED <<actorVars, trainVars, storeVars, exc>>

\* Line 38 on a buffer that holds fewer than batch_size transitions: a fatal
\* error to the caller.
SampleUnderfilled ==
    /\ upc = "sample"
    /\ ~can_sample(memory, call.batch_size)
    /\ upc' = "raised"
    /\ exc' = "SampleError"
    /\ UNCHANGED <<hp, critic, critic_target, critic_grad, call, ncalls, batch,
                   target_in, next_q_value, target_at_call>>
    /\ UNCHANGED <<actorVars, trainVars, storeVars>>

TargetInputs ==
    {[log_pi |-> lp, qf1 |-> q.qf1, qf2 |-> q.qf2] : lp \in LogProbs, q \in QPairs}

\* Lines 46-50: per transition of the batch, the next action's log-probability
\* from the Actor, the two target-critic values, and the TD target.
ComputeTarget ==
    /\ upc = "target"
    /\ \E tin \in [1 .. Len(batch) -> TargetInputs] :
         /\ target_in' = tin
         /\ next_q_value' =
              [i \in 1 .. Len(batch) |->
                 NextQValue(batch[i].reward, batch[i].mask, hp.gamma,
                            SoftValue(tin[i].qf1, tin[i].qf2, hp.alpha,
                                      tin[i].log_pi))]
    /\ upc' = "critic"
    /\ UNCHANGED <<hp, critic, critic_target, critic_grad, call, ncalls, batch,
                   target_at_call>>
    /\ UNCHANGED <<actorVars, trainVars, storeVars, exc>>

\* Lines 52-60: the critic loss, zero_grad, backward and the optimizer step.
\* The batch and the TD targets are not read after the loss: the model drops
\* them here.
CriticUpdate ==
    /\ upc = "critic"
    /\ \E g \in Gradients :
         /\ critic_grad' = Backward(ZeroGrad(critic_grad),
                                    [call |-> ncalls, loss |-> "critic", g |-> g])
         /\ critic' = OptimStep(critic, critic_grad')
    /\ upc' = "actor"
    /\ batch' = << >>
    /\ target_in' = << >>
    /\ next_q_value' = << >>
    /\ UNCHANGED <<hp, critic_target, call, ncalls, target_at_call>>
    /\ UNCHANGED <<actorVars, trainVars, storeVars, exc>>

\* Lines 63-66: the actor loss subtracts a tensor from the tuple
\* (self.alpha, log_pi), which raises TypeError.  Lines 69-80 (the actor's
\* backward and step, the target synchronisation stub, the return) are never
\* reached.
ActorLoss ==
    /\ upc = "actor"
    /\ upc' = "raised"
    /\ exc' = "TypeError"
    /\ UNCHANGED <<hp, critic, critic_target, critic_grad, call, ncalls, batch,
                   target_in, next_q_value, target_at_call>>
    /\ UNCHANGED <<actorVars, trainVars, storeVars>>

Hyperparameters ==
    [gamma : Gammas, tau : Taus, alpha : Alphas,
     target_update_interval : TargetUpdateIntervals]

\* The Agent constructed (lines 13-27): critic and critic_target are
\* initialised independently of each other.
InitUpdate ==
    /\ \E sp \in {[given |-> TRUE, low |-> -1, high |-> 1]} : ActorInit(sp)
    /\ actor = 0
    /\ cfg \in {[episodes |-> 0, batch_size |-> 1, updates_per_step |-> 0,
                 max_episode_steps |-> 0]}
    /\ pc = "idle"
    /\ episode = 0 /\ episode_steps = 0 /\ total_numsteps = 0 /\ updates = 0
    /\ done = FALSE /\ state = 0 /\ action = 0 /\ step_out = NoStep
    /\ exc = None /\ save_calls = 0 /\ iter = NoIter
    /\ memory = EmptyMemory
    /\ checkpoint_files = NoFiles
    /\ UpdIdle
    /\ hp \in Hyperparameters
    /\ critic = 0 /\ critic_target \in Params
    /\ target_at_call = critic_target

NextUpdate ==
    \/ CallerStore
    \/ CallUpdate
    \/ SampleBatch
    \/ SampleUnderfilled
    \/ ComputeTarget
    \/ CriticUpdate
    \/ ActorLoss

SpecUpdate == InitUpdate /\ [][NextUpdate]_vars

\* C4 as claimed: when an update_parameters call whose update counter is a
\* multiple of target_update_interval has run, the target-critic parameter is
\* tau * param + (1 - tau) * target_param of the critic's parameter (tau = 1:
\* the critic's current parameter, tau = 0: unchanged); after any other call
\* it is unchanged.
C4_SoftUpdate ==
    (upc = "raised" /\ exc = "TypeError") =>
        IF call.updates % hp.target_update_interval = 0
        THEN critic_target = hp.tau * critic + (1 - hp.tau) * target_at_call
        ELSE critic_target = target_at_call

\* C6: the TD target of a transition is reward + mask * gamma * (min of the
\* two target-critic values - alpha * log_prob of the next action): the stored
\* reward when mask = 0, the soft value when mask = 1, reward = 0, gamma = 1.
C6_TDTarget ==
    upc = "critic" =>
        /\ Len(next_q_value) = call.batch_size
        /\ \A i \in 1 .. Len(next_q_value) :
             LET t == batch[i]
                 lo == IF target_in[i].qf1 <= target_in[i].qf2
                       THEN target_in[i].qf1 ELSE target_in[i].qf2
                 soft == lo - hp.alpha * target_in[i].log_pi
             IN  /\ t.mask = 0 => next_q_value[i] = t.reward
                 /\ (t.mask = 1 /\ t.reward = 0 /\ hp.gamma = 1) =>
                        next_q_value[i] = soft
                 /\ t.mask = 1 => next_q_value[i] = t.reward + hp.gamma * soft

\* C6, its case: a terminal transition whose soft value is not 0 gets its
\* reward as target, beside one at gamma = 1 that is not terminal.
C6_Witness ==
    /\ upc = "critic"
    /\ hp.gamma = 1
    /\ \E i \in 1 .. Len(batch) :
         /\ batch[i].mask = 0
         /\ batch[i].reward = 1
         /\ SoftValue(target_in[i].qf1, target_in[i].qf2, hp.alpha,
                      target_in[i].log_pi) # 0
         /\ next_q_value[i] = 1

LastStored == memory.data[((memory.ctr - 1) % MemSize) + 1]

\* The step loop is back at line 96 right after a store of this episode.
JustStored == pc = "while" /\ episode_steps > 0

\* C1: the mask stored with a transition is 0 exactly when the environment
\* signalled done on that step and the episode's step count after the step is
\* below max_episode_steps; otherwise (not done, or the step cap reached,
\* done or not) it is 1.
C1_MaskRule ==
    JustStored =>
        /\ LastStored.mask \in {0, 1}
        /\ LastStored.mask = 0 <=> (done /\ episode_steps < cfg.max_episode_steps)

\* C1, its case: done signalled on the very step that reaches the cap, and the
\* stored mask is 1.
C1_Witness ==
    /\ JustStored
    /\ done
    /\ episode_steps = cfg.max_episode_steps
    /\ cfg.max_episode_steps >= 2
    /\ LastStored.mask = 1

\* C2: train reaches its call of update_parameters (line 100, the only path
\* to memory.sample_buffer) only in a state where can_sample(batch_size) is
\* true, that is with at least batch_size transitions in the buffer.
C2_SampleGuarded ==
    pc \in {"update", "raised"} =>
        /\ can_sample(memory, cfg.batch_size)
        /\ MemLen(memory) >= cfg.batch_size

\* C2, its case: the guard of line 98 has passed on a filled buffer and train
\* is at the call; earlier iterations of the run skipped it.
C2_Witness ==
    /\ pc = "update"
    /\ iter.guard
    /\ total_numsteps >= cfg.batch_size
    /\ MemLen(memory) >= cfg.batch_size

\* C3 as claimed: an iteration of the step loop that found at least
\* batch_size transitions in the buffer leaves its update phase with exactly
\* updates_per_step completed calls of update_parameters, the update counter
\* raised by one per call; an iteration that found fewer leaves the counter
\* as it was.
C3_UpdatesPerStep ==
    pc \in {"step", "store", "raised"} =>
        /\ pc # "raised"
        /\ updates = iter.updates0 + (IF iter.guard THEN cfg.updates_per_step ELSE 0)

\* C7: every environment step is followed by exactly one store before the
\* next step or reset, so N steps leave N stores; the stored state is the one
\* the action was selected from and the stored next_state is the state the
\* next action of the episode is selected from.
C7_StepThenStore ==
    /\ pc = "store" => memory.ctr + 1 = total_numsteps
    /\ pc # "store" => memory.ctr = total_numsteps
    /\ JustStored =>
          /\ LastStored.state = iter.from
          /\ LastStored.next_state = state
          /\ LastStored.action = action
          /\ LastStored.reward = step_out.reward
    /\ (pc = "guard" /\ episode_steps > 0) => iter.from = LastStored.next_state

\* C7, its case: a rollout over two episodes, three steps taken, three stores,
\* and the second step of an episode selected from the first one's next_state.
C7_Witness ==
    /\ pc = "guard"
    /\ episode = 1
    /\ episode_steps = 1
    /\ total_numsteps = 3
    /\ memory.ctr = 3
    /\ iter.from = LastStored.next_state
    /\ LastStored.state # LastStored.next_state

\* The parameters a checkpoint of the three networks holds after a save.
Persisted(files) ==
    /\ files["actor"].saved /\ files["actor"].params = actor
    /\ files["critic"].saved /\ files["critic"].params = critic
    /\ files["critic_target"].saved /\ files["critic_target"].params = critic_target

\* C8 as claimed: once the end of an episode whose index is a multiple of 10
\* (episode 0 included) has triggered save_checkpoint, the checkpoint files
\* hold the parameters of the Actor, the Critic and the Target Critic.
C8_CheckpointPersists ==
    /\ (pc = "episode" /\ episode > 0 /\ CheckpointDue(episode - 1)) => save_calls > 0
    /\ save_calls > 0 => Persisted(checkpoint_files)

\* C10 as claimed: in the iteration after the one whose store brought the
\* buffer to batch_size transitions, the first update of the run happens
\* after the action is selected and before the environment is stepped with
\* that action.
C10_UpdateBeforeStep ==
    (iter.guard /\ cfg.updates_per_step > 0 /\ iter.updates0 = 0
        /\ pc \in {"step", "store", "raised"}) =>
        /\ updates > 0
        /\ pc \in {"step", "store"}

=============================================================================
